---- MODULE Spec2Model ----
(***************************************************************************)
(* smallsh.c: the interpreter's control loop (main), the process launcher  *)
(* (execCommand), the reaper (reapBackground), the job registry (bgPids,   *)
(* bgCount, addBgPid, removeBgPid), the status tracker (lastExitStatus,    *)
(* lastTermSignal, lastWasSignaled, printStatus) and the stop-signal       *)
(* handler (catchSIGTSTP), together with the children the interpreter      *)
(* forks and the signals the terminal delivers.                            *)
(***************************************************************************)
EXTENDS Integers, Sequences, FiniteSets, TLC

(* ---------------------------------------------------------------------- *)
(* Bounds of the model                                                    *)
(* ---------------------------------------------------------------------- *)

\* number of process identifiers the OS hands out (and reuses)
MaxPid == 2

\* capacity of the job registry; smallsh.c:26 sets 1024, scaled down so that
\* a full registry is reached
MaxBg == 1

\* number of external commands launched in one run of the interpreter
MaxLaunch == 2

\* number of stop-signal deliveries in one run of the interpreter
MaxTstp == 2

(* ---------------------------------------------------------------------- *)
(* Program constants                                                      *)
(* ---------------------------------------------------------------------- *)

MAXBGPIDS == MaxBg

SIGINT == 2

SIGKILL == 9

Pids == 1..MaxPid

\* exit codes a program that was exec'ed may end with
ExitCodes == {0, 1}

\* signals that may end a child from outside
KillSignals == {SIGINT, SIGKILL}

(* ---------------------------------------------------------------------- *)
(* The wait status word and the macros that decode it                     *)
(* ---------------------------------------------------------------------- *)

\* status word of a child that called exit(code)
W_EXITCODE(code) == (code % 256) * 256

\* status word of a child ended by signal sig
W_TERMSIG(sig) == sig % 128

WIFEXITED(st) == (st % 128) = 0

WEXITSTATUS(st) == (st \div 256) % 256

WIFSIGNALED(st) == (st % 128) \notin {0, 127}

WTERMSIG(st) == st % 128

\* status words a terminated child can have
ChildStatuses ==
  {W_EXITCODE(c) : c \in ExitCodes} \cup {W_TERMSIG(s) : s \in KillSignals}

\* values the local 'status' of execCommand may hold when waitpid did not
\* write it: a word of each shape, exited, signaled, and neither of the two
UninitStatuses == {W_EXITCODE(0), W_TERMSIG(SIGKILL), 127}

(* ---------------------------------------------------------------------- *)
(* Commands read by getInput                                              *)
(* ---------------------------------------------------------------------- *)

NoCmd == [kind |-> "none", background |-> 0, inFile |-> "", outFile |-> "", prog |-> ""]

\* paths and programs of the file system the children see
CanOpen(path) == path \in {"in_ok", "out_ok", "/dev/null"}

CanExec(prog) == prog = "ls"

\* the shapes of command line read: inFile/outFile are "" when the line has
\* no redirection
CmdShapes ==
  { [inFile |-> "",       outFile |-> "",        prog |-> "ls"],
    [inFile |-> "in_ok",  outFile |-> "out_ok",  prog |-> "ls"],
    [inFile |-> "in_bad", outFile |-> "out_ok",  prog |-> "ls"],
    [inFile |-> "",       outFile |-> "out_bad", prog |-> "ls"],
    [inFile |-> "",       outFile |-> "out_ok",  prog |-> "nosuchprog"] }

ExternalCmds ==
  { [kind |-> "ext", background |-> b, inFile |-> sh.inFile,
     outFile |-> sh.outFile, prog |-> sh.prog] : b \in {0, 1}, sh \in CmdShapes }

BuiltinCmds ==
  { [NoCmd EXCEPT !.kind = k] : k \in {"exit", "cd", "status"} }

(* ---------------------------------------------------------------------- *)
(* State                                                                  *)
(* ---------------------------------------------------------------------- *)

VARIABLES
  pc,               \* position of the interpreter in main/execCommand
  shSigint,         \* the interpreter's disposition of SIGINT
  shSigtstp,        \* the interpreter's disposition of SIGTSTP
  backgroundOn,     \* smallsh.c:29
  bgPids,           \* smallsh.c:32, indexed 0..MAXBGPIDS-1
  bgCount,          \* smallsh.c:33
  lastExitStatus,   \* smallsh.c:36
  lastTermSignal,   \* smallsh.c:37
  lastWasSignaled,  \* smallsh.c:38
  cmd,              \* the line getInput parsed (input, inFile, outFile, background)
  bg,               \* argument 'background' of execCommand
  spawnpid,         \* local of execCommand: result of fork
  proc,             \* the interpreter's children, by pid
  child,            \* what the child of the current launch did before exec
  out,              \* what the last step wrote to the terminal
  branch,           \* which branch of execCommand's switch the parent took
  fgOutcome,        \* status word of the latest foreground child that ended
  waited,           \* status word the foreground wait collected, or -1
  sincePrompt,      \* has reapBackground run since the last prompt
  pre,              \* registry and status variables when execCommand was called
  nLaunch,          \* external commands launched so far
  nTstp             \* stop signals delivered so far

vars == <<pc, shSigint, shSigtstp, backgroundOn, bgPids, bgCount,
          lastExitStatus, lastTermSignal, lastWasSignaled, cmd, bg, spawnpid,
          proc, child, out, branch, fgOutcome, waited, sincePrompt,
          pre, nLaunch, nTstp>>

shellVars == <<shSigint, shSigtstp>>
registryVars == <<bgPids, bgCount>>
statusVars == <<lastExitStatus, lastTermSignal, lastWasSignaled>>
launchVars == <<cmd, bg, spawnpid, child, branch, waited, pre>>

\* a line on the terminal: <<what, pid, how the child ended, number>>
NoOut == <<"", 0, "", 0>>

(* ---------------------------------------------------------------------- *)
(* Job registry                                                           *)
(* ---------------------------------------------------------------------- *)

Registry(pids, count) == { pids[i] : i \in 0..(count - 1) }

\* bgPids with the cells at and above bgCount cleared: no loop of the program
\* reads them (lines 47, 57, 59 and 414 stay below bgCount), so the model
\* does not tell apart what removeBgPid leaves in them
Live(pids, count) ==
  [i \in DOMAIN pids |-> IF i < count THEN pids[i] ELSE 0]

\* addBgPid without the capacity test of line 47
addBgPidUnchecked(pids, count, pid) ==
  [bgPids |-> [i \in DOMAIN pids \cup {count} |-> IF i = count THEN pid ELSE pids[i]],
   bgCount |-> count + 1]

\* void addBgPid(pid_t pid)
addBgPid(pids, count, pid) ==
  IF count < MAXBGPIDS
    THEN [bgPids |-> [pids EXCEPT ![count] = pid], bgCount |-> count + 1]
    ELSE [bgPids |-> pids, bgCount |-> count]

RECURSIVE findBgPid(_, _, _, _)
\* the loop of removeBgPid: first index i >= from with bgPids[i] == pid, or -1
findBgPid(pids, count, pid, from) ==
  IF from >= count THEN -1
  ELSE IF pids[from] = pid THEN from
  ELSE findBgPid(pids, count, pid, from + 1)

\* a removal that gives up the last cell without the swap of line 59
removeBgPidNoSwap(pids, count, pid) ==
  LET i == findBgPid(pids, count, pid, 0) IN
  IF i = -1
    THEN [bgPids |-> pids, bgCount |-> count]
    ELSE [bgPids |-> pids, bgCount |-> count - 1]

\* void removeBgPid(pid_t pid)
removeBgPid(pids, count, pid) ==
  LET i == findBgPid(pids, count, pid, 0) IN
  IF i = -1
    THEN [bgPids |-> pids, bgCount |-> count]
    ELSE [bgPids |-> [pids EXCEPT ![i] = pids[count - 1]], bgCount |-> count - 1]

(* ---------------------------------------------------------------------- *)
(* Status tracker                                                         *)
(* ---------------------------------------------------------------------- *)

\* the line printStatus prints
printStatus(exitStatus, termSignal, wasSignaled) ==
  IF wasSignaled # 0
    THEN <<"terminated by signal", termSignal>>
    ELSE <<"exit value", exitStatus>>

\* lines 363-373 of execCommand: the status variables after decoding st
recordStatus(st, exitStatus, termSignal, wasSignaled) ==
  IF WIFEXITED(st)
    THEN [lastExitStatus |-> WEXITSTATUS(st), lastTermSignal |-> termSignal,
          lastWasSignaled |-> 0, said |-> <<"", 0>>]
  ELSE IF WIFSIGNALED(st)
    THEN [lastExitStatus |-> exitStatus, lastTermSignal |-> WTERMSIG(st),
          lastWasSignaled |-> 1, said |-> <<"terminated by signal", WTERMSIG(st)>>]
  ELSE [lastExitStatus |-> exitStatus, lastTermSignal |-> termSignal,
        lastWasSignaled |-> wasSignaled, said |-> <<"", 0>>]

(* ---------------------------------------------------------------------- *)
(* The child side of execCommand (case 0), in program order               *)
(* ---------------------------------------------------------------------- *)

NoChild ==
  [pid |-> 0, background |-> 0, asBg |-> FALSE, sigtstp |-> "", sigint |-> "",
   stdin |-> "", stdout |-> "", stderr |-> "", outOpened |-> FALSE,
   execTried |-> FALSE, execed |-> FALSE, msg |-> <<"", "">>, exitCode |-> -1]

\* a child side without the exit(1) of lines 292 and 317: a failed open is
\* reported and the child goes on to execvp
childSideNoExit(pid, c, background, on) ==
  LET asBg   == background # 0 /\ on # 0
      inFail == c.inFile # "" /\ ~CanOpen(c.inFile)
      outFail == c.outFile # "" /\ ~CanOpen(c.outFile)
      execed == CanExec(c.prog)
  IN [pid |-> pid, background |-> background, asBg |-> asBg,
      sigtstp |-> "SIG_IGN",
      sigint |-> IF background = 0 \/ on = 0 THEN "SIG_DFL" ELSE "SIG_IGN",
      stdin |-> "tty", stdout |-> "tty", stderr |-> "tty",
      outOpened |-> FALSE, execTried |-> TRUE, execed |-> execed,
      msg |-> IF inFail THEN <<c.inFile, "cannot open input file">>
              ELSE IF outFail THEN <<c.outFile, "cannot open output file">>
              ELSE IF ~execed THEN <<c.prog, "no such file or directory">>
              ELSE <<"", "">>,
      exitCode |-> IF execed THEN -1 ELSE 1]

\* a child side that opens the output file before the input file
childSideOutputFirst(pid, c, background, on) ==
  LET asBg     == background # 0 /\ on # 0
      outFail  == c.outFile # "" /\ ~CanOpen(c.outFile)
      outOk    == c.outFile # "" /\ CanOpen(c.outFile)
      inFail   == ~outFail /\ c.inFile # "" /\ ~CanOpen(c.inFile)
      tried    == ~inFail /\ ~outFail
      execed   == tried /\ CanExec(c.prog)
  IN [pid |-> pid, background |-> background, asBg |-> asBg,
      sigtstp |-> "SIG_IGN",
      sigint |-> IF background = 0 \/ on = 0 THEN "SIG_DFL" ELSE "SIG_IGN",
      stdin |-> IF c.inFile # "" /\ CanOpen(c.inFile) /\ ~outFail THEN c.inFile
                ELSE IF c.inFile = "" /\ asBg /\ ~outFail THEN "/dev/null" ELSE "tty",
      stdout |-> IF outOk THEN c.outFile
                 ELSE IF c.outFile = "" /\ asBg THEN "/dev/null" ELSE "tty",
      stderr |-> IF c.outFile = "" /\ asBg THEN "/dev/null" ELSE "tty",
      outOpened |-> outOk, execTried |-> tried, execed |-> execed,
      msg |-> IF outFail THEN <<c.outFile, "cannot open output file">>
              ELSE IF inFail THEN <<c.inFile, "cannot open input file">>
              ELSE IF ~execed THEN <<c.prog, "no such file or directory">>
              ELSE <<"", "">>,
      exitCode |-> IF execed THEN -1 ELSE 1]

\* c: the parsed line; background: the argument of execCommand; on: the
\* child's copy of backgroundOn when it runs lines 278-324
childSide(pid, c, background, on) ==
  LET asBg     == background # 0 /\ on # 0
      sigint   == IF background = 0 \/ on = 0 THEN "SIG_DFL" ELSE "SIG_IGN"
      inFail   == c.inFile # "" /\ ~CanOpen(c.inFile)
      stdin    == IF c.inFile # ""
                    THEN (IF CanOpen(c.inFile) THEN c.inFile ELSE "tty")
                  ELSE IF asBg /\ CanOpen("/dev/null") THEN "/dev/null"
                  ELSE "tty"
      outTried == ~inFail /\ c.outFile # ""
      outFail  == outTried /\ ~CanOpen(c.outFile)
      outOk    == outTried /\ CanOpen(c.outFile)
      nullOut  == ~inFail /\ c.outFile = "" /\ asBg /\ CanOpen("/dev/null")
      stdout   == IF outOk THEN c.outFile ELSE IF nullOut THEN "/dev/null" ELSE "tty"
      stderr   == IF nullOut THEN "/dev/null" ELSE "tty"
      tried    == ~inFail /\ ~outFail
      execed   == tried /\ CanExec(c.prog)
      msg      == IF inFail THEN <<c.inFile, "cannot open input file">>
                  ELSE IF outFail THEN <<c.outFile, "cannot open output file">>
                  ELSE IF ~execed THEN <<c.prog, "no such file or directory">>
                  ELSE <<"", "">>
  IN [pid |-> pid, background |-> background, asBg |-> asBg,
      sigtstp |-> "SIG_IGN", sigint |-> sigint,
      stdin |-> stdin, stdout |-> stdout, stderr |-> stderr,
      outOpened |-> outOk, execTried |-> tried, execed |-> execed,
      msg |-> msg, exitCode |-> IF execed THEN -1 ELSE 1]

(* ---------------------------------------------------------------------- *)
(* Children of the interpreter                                            *)
(* ---------------------------------------------------------------------- *)

\* st: "free" (no such child), "run" (forked, not ended), "zombie" (ended,
\* not waited for); fate: the status word the child is bound to end with,
\* or -1; status: the status word of a zombie; fg: the parent took the
\* foreground branch for it
FreeProc == [st |-> "free", fate |-> -1, sigint |-> "", status |-> -1, fg |-> FALSE]

NoPre == <<>>

TypeOK ==
  /\ pc \in {"start", "prompt", "dispatch", "fork", "parent", "wait", "eintr", "reap",
             "final", "done", "killed"}
  /\ backgroundOn \in {0, 1}
  /\ bgCount \in Int
  /\ DOMAIN bgPids = 0..(MAXBGPIDS - 1)
  /\ DOMAIN proc = Pids

Init ==
  /\ pc = "start"
  /\ shSigint = "SIG_DFL"
  /\ shSigtstp = "SIG_DFL"
  /\ backgroundOn = 1
  /\ bgPids = [i \in 0..(MAXBGPIDS - 1) |-> 0]
  /\ bgCount = 0
  /\ lastExitStatus = 0
  /\ lastTermSignal = 0
  /\ lastWasSignaled = 0
  /\ cmd = NoCmd
  /\ bg = 0
  /\ spawnpid = 0
  /\ proc = [p \in Pids |-> FreeProc]
  /\ child = NoChild
  /\ out = NoOut
  /\ branch = "none"
  /\ fgOutcome = -1
  /\ waited = -1
  /\ sincePrompt = "first"
  /\ pre = NoPre
  /\ nLaunch = 0
  /\ nTstp = 0

(* ---------------------------------------------------------------------- *)
(* main: startup, lines 387-401                                           *)
(* ---------------------------------------------------------------------- *)

Startup ==
  /\ pc = "start"
  /\ shSigint' = "SIG_IGN"
  /\ shSigtstp' = "catchSIGTSTP"
  /\ pc' = "prompt"
  /\ out' = NoOut
  /\ UNCHANGED <<backgroundOn, registryVars, statusVars, launchVars, proc,
                 fgOutcome, sincePrompt, nLaunch, nTstp>>

(* ---------------------------------------------------------------------- *)
(* getInput and the dispatch of main, lines 403-446                       *)
(* ---------------------------------------------------------------------- *)

\* getInput returns a line with input[0] == NULL (blank line, comment line):
\* main continues with the next getInput, which prompts again
GetInputBlank ==
  /\ pc = "prompt"
  /\ pc' = "prompt"
  /\ sincePrompt' = "no"
  /\ out' = NoOut
  /\ UNCHANGED <<shellVars, backgroundOn, registryVars, statusVars, launchVars,
                 proc, fgOutcome, nLaunch, nTstp>>

\* getInput returns a command
GetInput ==
  /\ pc = "prompt"
  /\ \E c \in BuiltinCmds \cup ExternalCmds :
       /\ c.kind = "ext" => nLaunch < MaxLaunch
       /\ cmd' = c
  /\ pc' = "dispatch"
  /\ out' = NoOut
  /\ sincePrompt' = "no"
  /\ UNCHANGED <<shellVars, backgroundOn, registryVars, statusVars, bg, spawnpid,
                 child, branch, waited, pre, proc, fgOutcome, nLaunch, nTstp>>

\* the number of kill() calls the loop of lines 414-415 makes on pid p
killsSent(pids, count, p) == Cardinality({ i \in 0..(count - 1) : pids[i] = p })

\* a bulk kill of every child of the interpreter, registered or not
killAllChildren(procs, pids, count) ==
  [p \in Pids |->
     IF procs[p].st = "run"
       THEN [procs[p] EXCEPT !.fate = W_TERMSIG(SIGKILL)]
       ELSE procs[p]]

\* kill(bgPids[i], SIGKILL) for i < bgCount: a child that has not ended is
\* bound to end by SIGKILL
killAll(procs, pids, count) ==
  [p \in Pids |->
     IF p \in Registry(pids, count) /\ procs[p].st = "run"
       THEN [procs[p] EXCEPT !.fate = W_TERMSIG(SIGKILL)]
       ELSE procs[p]]

\* built-in exit, lines 411-421
DoExit ==
  /\ pc = "dispatch"
  /\ cmd.kind = "exit"
  /\ proc' = killAll(proc, bgPids, bgCount)
  /\ pc' = "final"
  /\ out' = NoOut
  /\ UNCHANGED <<shellVars, backgroundOn, registryVars, statusVars, launchVars,
                 fgOutcome, sincePrompt, nLaunch, nTstp>>

\* built-in cd, lines 424-435
DoCd ==
  /\ pc = "dispatch"
  /\ cmd.kind = "cd"
  /\ pc' = "reap"
  /\ out' = NoOut
  /\ UNCHANGED <<shellVars, backgroundOn, registryVars, statusVars, launchVars,
                 proc, fgOutcome, sincePrompt, nLaunch, nTstp>>

\* built-in status, lines 438-440
DoStatus ==
  /\ pc = "dispatch"
  /\ cmd.kind = "status"
  /\ LET line == printStatus(lastExitStatus, lastTermSignal, lastWasSignaled)
     IN out' = <<"status", 0, line[1], line[2]>>
  /\ pc' = "reap"
  /\ UNCHANGED <<shellVars, backgroundOn, registryVars, statusVars, launchVars,
                 proc, fgOutcome, sincePrompt, nLaunch, nTstp>>

\* int bg = background && backgroundOn, line 444
effectiveBg(background, on) == IF background # 0 /\ on # 0 THEN 1 ELSE 0

\* all other commands, lines 443-445: up to the call of execCommand
DoExternal ==
  /\ pc = "dispatch"
  /\ cmd.kind = "ext"
  /\ bg' = effectiveBg(cmd.background, backgroundOn)
  /\ pre' = <<bgPids, bgCount, lastExitStatus, lastTermSignal, lastWasSignaled>>
  /\ nLaunch' = nLaunch + 1
  /\ pc' = "fork"
  /\ out' = NoOut
  /\ UNCHANGED <<shellVars, backgroundOn, registryVars, statusVars, cmd, spawnpid,
                 child, branch, waited, proc, fgOutcome, sincePrompt, nTstp>>

(* ---------------------------------------------------------------------- *)
(* execCommand, lines 246-377                                             *)
(* ---------------------------------------------------------------------- *)

\* a switch without case -1: the parent code runs with spawnpid = -1 and
\* decodes the status of a waitpid that found no child
ForkFailFallsThrough ==
  /\ pc = "fork"
  /\ spawnpid' = -1
  /\ branch' = "forkfail"
  /\ out' = <<"fork failed", 0, "", 0>>
  /\ lastExitStatus' = 1
  /\ lastWasSignaled' = 0
  /\ pc' = "reap"
  /\ UNCHANGED <<shellVars, backgroundOn, registryVars, lastTermSignal, cmd, bg, child,
                 waited, pre, proc, fgOutcome, sincePrompt, nLaunch, nTstp>>

\* fork() returns -1, lines 256-260
ForkFail ==
  /\ pc = "fork"
  /\ spawnpid' = -1
  /\ branch' = "forkfail"
  /\ out' = <<"fork failed", 0, "", 0>>
  /\ pc' = "reap"
  /\ UNCHANGED <<shellVars, backgroundOn, registryVars, statusVars, cmd, bg, child,
                 waited, pre, proc, fgOutcome, sincePrompt, nLaunch, nTstp>>

\* fork() returns a child, which runs case 0 (lines 263-341) on its own copy
\* of the interpreter's memory. The program only compares pids for equality
\* and keeps no reference to a pid it has reaped, so which free pid the OS
\* hands out does not matter: the model takes the lowest, which also reuses
\* the pid of a reaped child as early as possible. The child inherits the handler of the stop
\* signal until line 271, so its copy of backgroundOn is the parent's at the
\* fork or, when the stop signal reaches the child first, the toggled one.
Fork ==
  /\ pc = "fork"
  /\ \E p \in Pids, on \in {backgroundOn, 1 - backgroundOn} :
       /\ proc[p].st = "free"
       /\ \A q \in Pids : q < p => proc[q].st # "free"
       /\ LET c == childSide(p, cmd, bg, on) IN
            /\ child' = c
            /\ proc' = [proc EXCEPT ![p] =
                         [st |-> "run",
                          fate |-> IF c.execed THEN -1 ELSE W_EXITCODE(c.exitCode),
                          sigint |-> c.sigint, status |-> -1, fg |-> FALSE]]
       /\ spawnpid' = p
  /\ pc' = "parent"
  /\ out' = NoOut
  /\ UNCHANGED <<shellVars, backgroundOn, registryVars, statusVars, cmd, bg, branch,
                 waited, pre, fgOutcome, sincePrompt, nLaunch, nTstp>>

\* the test of line 346
parentRegisters(background, on) == background # 0 /\ on # 0

\* parent, background branch, lines 346-354
ParentBg ==
  /\ pc = "parent"
  /\ parentRegisters(bg, backgroundOn)
  /\ LET r == addBgPid(bgPids, bgCount, spawnpid) IN
       /\ bgPids' = r.bgPids
       /\ bgCount' = r.bgCount
  /\ out' = <<"background pid is", spawnpid, "", 0>>
  /\ branch' = "bg"
  /\ pc' = "reap"
  /\ UNCHANGED <<shellVars, backgroundOn, statusVars, cmd, bg, spawnpid, child,
                 waited, pre, proc, fgOutcome, sincePrompt, nLaunch, nTstp>>

\* a foreground branch that also records the pid it is about to wait for
ParentFgRegisters ==
  /\ pc = "parent"
  /\ ~parentRegisters(bg, backgroundOn)
  /\ LET r == addBgPid(bgPids, bgCount, spawnpid) IN
       /\ bgPids' = r.bgPids
       /\ bgCount' = r.bgCount
  /\ branch' = "fg"
  /\ proc' = [proc EXCEPT ![spawnpid].fg = TRUE]
  /\ fgOutcome' = IF proc[spawnpid].st = "zombie" THEN proc[spawnpid].status
                  ELSE fgOutcome
  /\ pc' = "wait"
  /\ out' = NoOut
  /\ UNCHANGED <<shellVars, backgroundOn, statusVars, cmd, bg,
                 spawnpid, child, waited, pre, sincePrompt, nLaunch, nTstp>>

\* parent, foreground branch, lines 356-359: up to the call of waitpid
ParentFg ==
  /\ pc = "parent"
  /\ ~parentRegisters(bg, backgroundOn)
  /\ branch' = "fg"
  /\ proc' = [proc EXCEPT ![spawnpid].fg = TRUE]
  /\ fgOutcome' = IF proc[spawnpid].st = "zombie" THEN proc[spawnpid].status
                  ELSE fgOutcome
  /\ pc' = "wait"
  /\ out' = NoOut
  /\ UNCHANGED <<shellVars, backgroundOn, registryVars, statusVars, cmd, bg,
                 spawnpid, child, waited, pre, sincePrompt, nLaunch, nTstp>>

\* lines 363-373 applied to the status word st
Decode(st) ==
  LET r == recordStatus(st, lastExitStatus, lastTermSignal, lastWasSignaled) IN
  /\ lastExitStatus' = r.lastExitStatus
  /\ lastTermSignal' = r.lastTermSignal
  /\ lastWasSignaled' = r.lastWasSignaled
  /\ out' = IF r.said[1] = "" THEN NoOut ELSE <<"fg", 0, r.said[1], r.said[2]>>

\* waitpid(spawnpid, &status, 0) returns the child, lines 359-374
WaitFg ==
  /\ pc = "wait"
  /\ proc[spawnpid].st = "zombie"
  /\ Decode(proc[spawnpid].status)
  /\ waited' = proc[spawnpid].status
  /\ proc' = [proc EXCEPT ![spawnpid] = FreeProc]
  /\ pc' = "reap"
  /\ UNCHANGED <<shellVars, backgroundOn, registryVars, cmd, bg, spawnpid, child,
                 branch, pre, fgOutcome, sincePrompt, nLaunch, nTstp>>

\* waitpid returned -1 (EINTR) without writing 'status', which line 252
\* leaves uninitialized: lines 363-374 decode whatever it holds
WaitEintr ==
  /\ pc = "eintr"
  /\ \E st \in UninitStatuses : Decode(st)
  /\ pc' = "reap"
  /\ UNCHANGED <<shellVars, backgroundOn, registryVars, cmd, bg, spawnpid, child,
                 branch, waited, pre, proc, fgOutcome, sincePrompt, nLaunch, nTstp>>

(* ---------------------------------------------------------------------- *)
(* reapBackground, lines 113-138, and the end of the loop body            *)
(* ---------------------------------------------------------------------- *)

\* lines 121-132: the report for child pid with status word st
reportDone(pid, st) ==
  IF WIFEXITED(st)
    THEN <<"background pid is done", pid, "exit value", WEXITSTATUS(st)>>
  ELSE IF WIFSIGNALED(st)
    THEN <<"background pid is done", pid, "terminated by signal", WTERMSIG(st)>>
  ELSE <<"background pid is done", pid, "", 0>>

\* a turn of the loop that also records the child's status as execCommand's
\* foreground branch does
ReapOneRecords(p) ==
  /\ pc = "reap"
  /\ proc[p].st = "zombie"
  /\ out' = reportDone(p, proc[p].status)
  /\ LET r == removeBgPid(bgPids, bgCount, p) IN
       /\ bgPids' = Live(r.bgPids, r.bgCount)
       /\ bgCount' = r.bgCount
  /\ LET r == recordStatus(proc[p].status, lastExitStatus, lastTermSignal,
                           lastWasSignaled) IN
       /\ lastExitStatus' = r.lastExitStatus
       /\ lastTermSignal' = r.lastTermSignal
       /\ lastWasSignaled' = r.lastWasSignaled
  /\ proc' = [proc EXCEPT ![p] = FreeProc]
  /\ sincePrompt' = "yes"
  /\ UNCHANGED <<pc, shellVars, backgroundOn, launchVars, fgOutcome, nLaunch, nTstp>>

\* a turn of the loop without the removeBgPid of line 136
ReapOneKeepsPid(p) ==
  /\ pc = "reap"
  /\ proc[p].st = "zombie"
  /\ out' = reportDone(p, proc[p].status)
  /\ proc' = [proc EXCEPT ![p] = FreeProc]
  /\ sincePrompt' = "yes"
  /\ UNCHANGED <<pc, shellVars, backgroundOn, registryVars, statusVars, launchVars,
                 fgOutcome, nLaunch, nTstp>>

\* one turn of the loop: waitpid(-1, &status, WNOHANG) returns child p
ReapOne(p) ==
  /\ pc = "reap"
  /\ proc[p].st = "zombie"
  /\ out' = reportDone(p, proc[p].status)
  /\ LET r == removeBgPid(bgPids, bgCount, p) IN
       /\ bgPids' = Live(r.bgPids, r.bgCount)
       /\ bgCount' = r.bgCount
  /\ proc' = [proc EXCEPT ![p] = FreeProc]
  /\ sincePrompt' = "yes"
  /\ UNCHANGED <<pc, shellVars, backgroundOn, statusVars, launchVars, fgOutcome,
                 nLaunch, nTstp>>

\* the end of a loop whose waitpid has no WNOHANG: it returns -1 only when
\* the interpreter has no child left, and blocks while one is running
ReapEndBlocking ==
  /\ pc = "reap"
  /\ \A p \in Pids : proc[p].st = "free"
  /\ sincePrompt' = "yes"
  /\ cmd' = NoCmd
  /\ bg' = 0
  /\ spawnpid' = 0
  /\ child' = NoChild
  /\ branch' = "none"
  /\ waited' = -1
  /\ pre' = NoPre
  /\ pc' = "prompt"
  /\ out' = NoOut
  /\ UNCHANGED <<shellVars, backgroundOn, registryVars, statusVars, proc, fgOutcome,
                 nLaunch, nTstp>>

\* waitpid(-1, &status, WNOHANG) returns 0 or -1: reapBackground returns,
\* lines 451-459 clear the line and main calls getInput, which prompts
ReapEnd ==
  /\ pc = "reap"
  /\ \A p \in Pids : proc[p].st # "zombie"
  /\ sincePrompt' = "yes"
  /\ cmd' = NoCmd
  /\ bg' = 0
  /\ spawnpid' = 0
  /\ child' = NoChild
  /\ branch' = "none"
  /\ waited' = -1
  /\ pre' = NoPre
  /\ pc' = "prompt"
  /\ out' = NoOut
  /\ UNCHANGED <<shellVars, backgroundOn, registryVars, statusVars, proc, fgOutcome,
                 nLaunch, nTstp>>

(* ---------------------------------------------------------------------- *)
(* main after the loop, lines 462-466                                     *)
(* ---------------------------------------------------------------------- *)

\* waitpid(-1, &status, WNOHANG) > 0
FinalReap(p) ==
  /\ pc = "final"
  /\ proc[p].st = "zombie"
  /\ proc' = [proc EXCEPT ![p] = FreeProc]
  /\ out' = NoOut
  /\ UNCHANGED <<pc, shellVars, backgroundOn, registryVars, statusVars, launchVars,
                 fgOutcome, sincePrompt, nLaunch, nTstp>>

\* waitpid(-1, &status, WNOHANG) <= 0: return 0
FinalEnd ==
  /\ pc = "final"
  /\ \A p \in Pids : proc[p].st # "zombie"
  /\ pc' = "done"
  /\ out' = NoOut
  /\ UNCHANGED <<shellVars, backgroundOn, registryVars, statusVars, launchVars,
                 proc, fgOutcome, sincePrompt, nLaunch, nTstp>>

(* ---------------------------------------------------------------------- *)
(* catchSIGTSTP, lines 73-91, and where its delivery finds the interpreter *)
(* ---------------------------------------------------------------------- *)

\* a handler that only ever enters foreground-only mode
catchSIGTSTPOneWay(on) ==
  IF on # 0
    THEN [backgroundOn |-> 0, msg |-> "Entering foreground-only mode (& is now ignored)"]
    ELSE [backgroundOn |-> 0, msg |-> "Exiting foreground-only mode"]

catchSIGTSTP(on) ==
  IF on # 0
    THEN [backgroundOn |-> 0, msg |-> "Entering foreground-only mode (& is now ignored)"]
    ELSE [backgroundOn |-> 1, msg |-> "Exiting foreground-only mode"]

Handler ==
  /\ shSigtstp = "catchSIGTSTP"
  /\ pc \notin {"done", "killed"}
  /\ nTstp < MaxTstp
  /\ nTstp' = nTstp + 1
  /\ backgroundOn' = catchSIGTSTP(backgroundOn).backgroundOn
  /\ out' = <<catchSIGTSTP(backgroundOn).msg, 0, "", 0>>

\* the stop signal arrives while the interpreter is not inside a blocking call
Tstp ==
  /\ Handler
  /\ UNCHANGED <<pc, shellVars, registryVars, statusVars, launchVars, proc,
                 fgOutcome, sincePrompt, nLaunch>>

\* the stop signal arrives while fgets (line 166) blocks in read: sa_flags has
\* no SA_RESTART (line 400), fgets returns NULL, getInput returns with
\* input[0] == NULL and main continues with the next getInput
TstpInRead ==
  /\ pc = "prompt"
  /\ Handler
  /\ sincePrompt' = "no"
  /\ UNCHANGED <<pc, shellVars, registryVars, statusVars, launchVars, proc,
                 fgOutcome, nLaunch>>

\* the stop signal arrives while waitpid (line 359) blocks: sa_flags has no
\* SA_RESTART (line 400), waitpid returns -1 and the child stays unwaited
TstpInWait ==
  /\ pc = "wait"
  /\ proc[spawnpid].st = "run"
  /\ Handler
  /\ pc' = "eintr"
  /\ UNCHANGED <<shellVars, registryVars, statusVars, launchVars, proc,
                 fgOutcome, sincePrompt, nLaunch>>

(* ---------------------------------------------------------------------- *)
(* The environment: children end, the terminal delivers SIGINT            *)
(* ---------------------------------------------------------------------- *)

\* child p ends with status word st; SIGINT ends only a child whose
\* disposition of SIGINT is the default one
ChildEnds(p) ==
  /\ proc[p].st = "run"
  /\ \E st \in ChildStatuses :
       /\ proc[p].fate # -1 => st = proc[p].fate
       /\ st = W_TERMSIG(SIGINT) => proc[p].sigint = "SIG_DFL"
       /\ proc' = [proc EXCEPT ![p] = [FreeProc EXCEPT !.st = "zombie", !.status = st]]
       /\ fgOutcome' = IF proc[p].fg THEN st ELSE fgOutcome
  /\ out' = NoOut
  /\ UNCHANGED <<pc, shellVars, backgroundOn, registryVars, statusVars, launchVars,
                 sincePrompt, nLaunch, nTstp>>

\* SIGINT reaches the interpreter
Sigint ==
  /\ pc \notin {"done", "killed"}
  /\ pc' = IF shSigint = "SIG_IGN" THEN pc ELSE "killed"
  /\ out' = NoOut
  /\ UNCHANGED <<shellVars, backgroundOn, registryVars, statusVars, launchVars,
                 proc, fgOutcome, sincePrompt, nLaunch, nTstp>>

Next ==
  \/ Startup
  \/ GetInputBlank
  \/ GetInput
  \/ DoExit
  \/ DoCd
  \/ DoStatus
  \/ DoExternal
  \/ ForkFail
  \/ Fork
  \/ ParentBg
  \/ ParentFg
  \/ WaitFg
  \/ WaitEintr
  \/ \E p \in Pids : ReapOne(p)
  \/ ReapEnd
  \/ \E p \in Pids : FinalReap(p)
  \/ FinalEnd
  \/ Tstp
  \/ TstpInRead
  \/ TstpInWait
  \/ \E p \in Pids : ChildEnds(p)
  \/ Sigint

Spec == Init /\ [][Next]_vars

(* ---------------------------------------------------------------------- *)
(* removeBgPid on its own, lines 56-63: calls on registries of up to      *)
(* MaxReg entries                                                         *)
(* ---------------------------------------------------------------------- *)

MaxReg == 3
MaxRegPid == 4

\* registries as the program builds them: bgCount distinct pids in the cells
\* below bgCount, the cells above still 0 as at program start
RegistryInputs ==
  { r \in [bgPids : [0..(MaxReg - 1) -> 0..MaxRegPid], bgCount : 0..MaxReg] :
      /\ \A i \in 0..(MaxReg - 1) : (i < r.bgCount) <=> (r.bgPids[i] # 0)
      /\ \A i, j \in 0..(r.bgCount - 1) : i # j => r.bgPids[i] # r.bgPids[j] }

InitRemove ==
  /\ pc = "reap"
  /\ shSigint = "SIG_IGN"
  /\ shSigtstp = "catchSIGTSTP"
  /\ backgroundOn = 1
  /\ \E r \in RegistryInputs : bgPids = r.bgPids /\ bgCount = r.bgCount
  /\ lastExitStatus = 0
  /\ lastTermSignal = 0
  /\ lastWasSignaled = 0
  /\ cmd = NoCmd
  /\ bg = 0
  /\ spawnpid = 0
  /\ proc = [p \in Pids |-> FreeProc]
  /\ child = NoChild
  /\ out = NoOut
  /\ branch = "none"
  /\ fgOutcome = -1
  /\ waited = -1
  /\ sincePrompt = "yes"
  /\ pre = NoPre
  /\ nLaunch = 0
  /\ nTstp = 0

\* the call removeBgPid(pid) of line 136; pre keeps the registry of before
\* the call and spawnpid the argument
RemoveCall(pid) ==
  /\ pre' = <<bgPids, bgCount, lastExitStatus, lastTermSignal, lastWasSignaled>>
  /\ spawnpid' = pid
  /\ LET r == removeBgPid(bgPids, bgCount, pid) IN
       /\ bgPids' = r.bgPids
       /\ bgCount' = r.bgCount
  /\ UNCHANGED <<pc, shellVars, backgroundOn, statusVars, cmd, bg, proc, child, out,
                 branch, fgOutcome, waited, sincePrompt, nLaunch, nTstp>>

NextRemove == \E pid \in 1..MaxRegPid : RemoveCall(pid)

SpecRemove == InitRemove /\ [][NextRemove]_vars

(* ---------------------------------------------------------------------- *)
(* Properties                                                             *)
(* ---------------------------------------------------------------------- *)

\* the line a status query is to print for the status word st of the latest
\* completed foreground command (-1: none has completed)
Outcome(st) ==
  IF st = -1 THEN <<"exit value", 0>>
  ELSE IF WIFEXITED(st) THEN <<"exit value", WEXITSTATUS(st)>>
  ELSE <<"terminated by signal", WTERMSIG(st)>>

\* the line a status query would print in the current state
Describe == printStatus(lastExitStatus, lastTermSignal, lastWasSignaled)

\* the step with which execCommand returns to main after a fork that succeeded
LaunchReturns == pc \in {"parent", "wait", "eintr"} /\ pc' = "reap"

\* C1: every status query prints the outcome of the most recently completed
\* foreground command, 'exit value 0' when none has completed yet.
C1_StatusIsLastForeground ==
  out[1] = "status" => <<out[3], out[4]>> = Outcome(fgOutcome)

\* C2: when a foreground launch has returned to the control loop, the wait
\* has collected that child, the child is gone, and the status variables
\* hold the outcome the wait collected.
C2_ForegroundReturnsAfterChild ==
  (pc = "reap" /\ branch = "fg") =>
     /\ waited # -1
     /\ proc[spawnpid].st = "free"
     /\ Describe = Outcome(waited)

\* C3: a line with the background flag that was dispatched while
\* backgroundOn was false has, when its launch has returned, taken the
\* foreground branch (no registration, no notice), its child has been waited
\* for and is not in the registry, and its outcome is the one recorded.
C3_NoPermissionRunsForeground ==
  (pc = "reap" /\ cmd.kind = "ext" /\ cmd.background = 1 /\ bg = 0
     /\ branch # "forkfail") =>
     /\ branch = "fg"
     /\ spawnpid \notin Registry(bgPids, bgCount)
     /\ waited # -1
     /\ proc[spawnpid].st = "free"
     /\ Describe = Outcome(waited)

\* C4: the parent's step of a launch that was dispatched with the background
\* flag while backgroundOn was true, the registry being below capacity,
\* inserts exactly the child's pid, reports it, returns at once without
\* waiting and leaves the status variables unchanged.
C4_BackgroundLaunchRegisters ==
  [][(pc = "parent" /\ pc' # "parent" /\ bg = 1 /\ bgCount < MAXBGPIDS) =>
       /\ pc' = "reap"
       /\ Registry(bgPids', bgCount') = Registry(bgPids, bgCount) \cup {spawnpid}
       /\ bgCount' = bgCount + 1
       /\ out' = <<"background pid is", spawnpid, "", 0>>
       /\ proc' = proc
       /\ UNCHANGED statusVars]_vars

\* C5: the Reaper reports a child as done only if the child's pid is in the
\* registry when it is reaped, and the pid is not in the registry afterwards.
C5_ReportOnlyTracked ==
  [][\A p \in Pids :
       (pc = "reap" /\ proc[p].st = "zombie" /\ proc'[p].st = "free") =>
          /\ out'[1] = "background pid is done" => p \in Registry(bgPids, bgCount)
          /\ p \notin Registry(bgPids', bgCount')]_vars

\* C6: whenever the interpreter is at a prompt other than the first one, the
\* Reaper has run since the previous prompt.
C6_ReaperBetweenPrompts ==
  pc = "prompt" => sincePrompt # "no"

\* the line has a redirection path that cannot be opened
BadRedirect(c) ==
  \/ c.inFile # "" /\ ~CanOpen(c.inFile)
  \/ c.outFile # "" /\ ~CanOpen(c.outFile)

\* the child reported a cannot-open message that names the path of the line
\* that cannot be opened, and ended without reaching execvp
ChildRefused ==
  /\ \/ child.msg = <<cmd.inFile, "cannot open input file">> /\ cmd.inFile # ""
     \/ child.msg = <<cmd.outFile, "cannot open output file">> /\ cmd.outFile # ""
  /\ ~CanOpen(child.msg[1])
  /\ ~child.execTried
  /\ ~child.execed

\* C7 as stated: when a launch whose redirection path cannot be opened
\* returns, the child has reported the path and ended without exec, and the
\* registry and the status variables are what they were before the launch.
C7_CannotOpenLeavesStateAlone ==
  [][(LaunchReturns /\ BadRedirect(cmd)) =>
       /\ ChildRefused
       /\ <<bgPids', bgCount', lastExitStatus', lastTermSignal', lastWasSignaled'>>
            = pre]_vars

\* C7 amended: when a launch whose redirection path cannot be opened returns,
\* the child has reported the path and ended with exit status 1 without
\* reaching exec, and the interpreter has treated it as any other child: on
\* the background branch the status variables are unchanged and the registry
\* has gained the child's pid if it had room; on the foreground branch the
\* registry is unchanged and a wait that collected the child has recorded
\* 'exit value 1'.
C7_CannotOpenEndsChildOnly ==
  [][(LaunchReturns /\ BadRedirect(cmd)) =>
       /\ ChildRefused
       /\ child.exitCode = 1
       /\ branch' \in {"fg", "bg"}
       /\ branch' = "bg" =>
            /\ <<lastExitStatus', lastTermSignal', lastWasSignaled'>>
                 = <<pre[3], pre[4], pre[5]>>
            /\ waited' = -1
            /\ Registry(bgPids', bgCount') =
                 Registry(pre[1], pre[2]) \cup
                   (IF pre[2] < MAXBGPIDS THEN {spawnpid} ELSE {})
       /\ branch' = "fg" =>
            /\ <<bgPids', bgCount'>> = <<pre[1], pre[2]>>
            /\ waited' # -1 =>
                 /\ waited' = W_EXITCODE(1)
                 /\ Describe' = <<"exit value", 1>>]_vars

\* a foreground launch with an input path that cannot be opened has returned
\* and has changed the status a query reports from 'exit value 0' to 1
C7_Witness ==
  /\ pc = "reap"
  /\ BadRedirect(cmd)
  /\ child.msg = <<"in_bad", "cannot open input file">>
  /\ branch = "fg"
  /\ waited = W_EXITCODE(1)
  /\ printStatus(pre[3], pre[4], pre[5]) = <<"exit value", 0>>
  /\ Describe = <<"exit value", 1>>

\* C8: no step taken while the interpreter is in reapBackground, whatever
\* child it reaps and however that child ended, changes lastExitStatus,
\* lastTermSignal or lastWasSignaled, so a status query reports the same.
C8_ReaperLeavesStatus ==
  [][pc = "reap" =>
       /\ UNCHANGED <<lastExitStatus, lastTermSignal, lastWasSignaled>>
       /\ Describe' = Describe]_vars

\* the Reaper has just reported a child whose outcome is not the one a status
\* query reports
C8_Witness ==
  /\ pc = "reap"
  /\ out[1] = "background pid is done"
  /\ out[3] = "terminated by signal"
  /\ <<out[3], out[4]>> # Describe

\* C9: bgCount stays within 0..MAXBGPIDS, and a launch that takes the
\* background branch with a full registry leaves bgPids and bgCount as they
\* are and returns to the control loop.
C9_RegistryBounded ==
  /\ [](bgCount \in 0..MAXBGPIDS)
  /\ [][(pc = "parent" /\ branch' = "bg" /\ bgCount = MAXBGPIDS) =>
          /\ bgPids' = bgPids
          /\ bgCount' = bgCount
          /\ pc' = "reap"]_vars

\* a background launch found the registry full: its child exists and is not
\* in the registry
C9_Witness ==
  /\ pc = "reap"
  /\ branch = "bg"
  /\ pre[2] = MAXBGPIDS
  /\ bgCount = MAXBGPIDS
  /\ proc[spawnpid].st = "run"
  /\ spawnpid \notin Registry(bgPids, bgCount)

\* C10: the interpreter ignores SIGINT once startup is over; a child that
\* reaches exec ignores SIGTSTP; its disposition of SIGINT is the default one
\* when the interpreter waits for it (foreground) and 'ignored' when the
\* interpreter registered it (background).
C10_InterruptEndsForegroundOnly ==
  /\ pc \notin {"start", "killed"} => shSigint = "SIG_IGN"
  /\ child.execTried => child.sigtstp = "SIG_IGN"
  /\ (child.execTried /\ branch = "fg") => child.sigint = "SIG_DFL"
  /\ (child.execTried /\ branch = "bg") => child.sigint = "SIG_IGN"

\* C11: outside the foreground wait the interpreter always has a step of its
\* own, whatever its children do: in reapBackground and in the final loop a
\* wait returns at once, with a finished child or with none; a pass that
\* finds no finished child ends with no report and the registry unchanged; a
\* background launch collects no child; and the final loop ends while
\* children are still running.
C11_OnlyForegroundWaitBlocks ==
  /\ [](/\ (pc = "reap") => ENABLED (ReapEnd \/ \E p \in Pids : ReapOne(p))
        /\ (pc = "reap" /\ \A p \in Pids : proc[p].st # "zombie") => ENABLED ReapEnd
        /\ (pc = "parent") => ENABLED (ParentBg \/ ParentFg)
        /\ (pc = "final") => ENABLED (FinalEnd \/ \E p \in Pids : FinalReap(p))
        /\ (pc = "final" /\ \A p \in Pids : proc[p].st # "zombie") => ENABLED FinalEnd)
  /\ [][/\ (pc = "reap" /\ pc' = "prompt") =>
            (out' = NoOut /\ proc' = proc /\ UNCHANGED registryVars)
        /\ (pc = "parent" /\ branch' = "bg") =>
            (pc' = "reap" /\ proc' = proc /\ waited' = -1)
        /\ (pc = "dispatch" /\ pc' = "final") =>
            (\A p \in Pids : proc'[p].st = proc[p].st)
        /\ (pc = "final") => (pc' \in {"final", "done"})]_vars

\* the interpreter has left the final loop and returned from main while a
\* child it sent SIGKILL to, registered as a background job, is still running
C11_Witness ==
  /\ pc = "done"
  /\ \E p \in Pids :
       /\ proc[p].st = "run"
       /\ proc[p].fate = W_TERMSIG(SIGKILL)
       /\ p \in Registry(bgPids, bgCount)

\* C12: a child launched in effective background mode (main passed bg = 1 at
\* line 444 and the parent took the background branch of line 346) that
\* reaches execvp has standard input on /dev/null unless the line names an
\* input file, and standard output and standard error on /dev/null unless
\* the line names an output file; a child launched in the foreground with no
\* redirection keeps the three streams of the interpreter.
C12_BackgroundDefaultsToNull ==
  (child.pid # 0 /\ child.execTried) =>
    /\ (bg # 0 /\ branch = "bg" /\ cmd.inFile = "") => child.stdin = "/dev/null"
    /\ (bg # 0 /\ branch = "bg" /\ cmd.outFile = "") =>
         (child.stdout = "/dev/null" /\ child.stderr = "/dev/null")
    /\ (bg = 0 /\ cmd.inFile = "" /\ cmd.outFile = "") =>
         (child.stdin = "tty" /\ child.stdout = "tty" /\ child.stderr = "tty")

\* C13: every delivery of SIGTSTP to the interpreter inverts backgroundOn,
\* writes "Entering foreground-only mode" when backgroundOn becomes 0 and
\* "Exiting foreground-only mode" when it becomes 1, and leaves bgPids,
\* bgCount and the three status variables as they were; so after an even
\* number of deliveries backgroundOn has its initial value 1 and after an
\* odd number it is 0.
C13_StopSignalToggles ==
  /\ [](backgroundOn = IF nTstp % 2 = 0 THEN 1 ELSE 0)
  /\ [][nTstp' # nTstp =>
          /\ nTstp' = nTstp + 1
          /\ backgroundOn' = 1 - backgroundOn
          /\ out'[1] = IF backgroundOn' = 0
                         THEN "Entering foreground-only mode (& is now ignored)"
                         ELSE "Exiting foreground-only mode"
          /\ UNCHANGED <<registryVars, statusVars, fgOutcome>>]_vars

\* the second delivery has just put backgroundOn back to 1 while a job is
\* registered and a foreground command has set the status variables
C13_Witness ==
  /\ nTstp = 2
  /\ backgroundOn = 1
  /\ out[1] = "Exiting foreground-only mode"
  /\ bgCount > 0
  /\ lastExitStatus # 0

C15_ForkFailureLeavesState ==
  [][/\ (pc = "fork" /\ spawnpid' = -1) =>
          /\ out' = <<"fork failed", 0, "", 0>>
          /\ <<bgPids', bgCount', lastExitStatus', lastTermSignal', lastWasSignaled'>> = pre
          /\ UNCHANGED <<registryVars, statusVars, fgOutcome, proc>>
          /\ child' = NoChild
          /\ waited' = -1
          /\ pc' = "reap"
     /\ (branch = "forkfail") =>
          /\ pc = "reap"
          /\ pc' \in {"reap", "prompt"}
          /\ ENABLED (ReapEnd \/ \E p \in Pids : ReapOne(p))
          /\ UNCHANGED statusVars]_vars

\* fork has just failed for a command entered while a background job is
\* registered and still running
C15_Witness ==
  /\ branch = "forkfail"
  /\ out[1] = "fork failed"
  /\ bgCount > 0
  /\ \E p \in Registry(bgPids, bgCount) : proc[p].st = "run"

C17_ChildStepsInOrder ==
  (child.pid # 0) =>
    LET inBad  == cmd.inFile # "" /\ ~CanOpen(cmd.inFile)
        outBad == cmd.outFile # "" /\ ~CanOpen(cmd.outFile)
    IN /\ child.sigtstp = "SIG_IGN"
       /\ child.sigint \in {"SIG_DFL", "SIG_IGN"}
       /\ child.execTried <=> (~inBad /\ ~outBad)
       /\ child.execed <=> (child.execTried /\ CanExec(cmd.prog))
       /\ inBad =>
            /\ child.exitCode = 1
            /\ ~child.outOpened
            /\ child.stdout = "tty"
            /\ child.msg = <<cmd.inFile, "cannot open input file">>
       /\ (~inBad /\ outBad) =>
            /\ child.exitCode = 1
            /\ child.msg = <<cmd.outFile, "cannot open output file">>
       /\ (child.execTried /\ ~CanExec(cmd.prog)) =>
            /\ child.exitCode = 1
            /\ (cmd.inFile # "") => (child.stdin = cmd.inFile)
            /\ (cmd.outFile # "") => (child.outOpened /\ child.stdout = cmd.outFile)
            /\ child.msg = <<cmd.prog, "no such file or directory">>
       /\ (child.exitCode = 1 /\ proc[child.pid].st = "run") =>
            (proc[child.pid].fate = W_EXITCODE(1))
       /\ (child.exitCode = 1 /\ proc[child.pid].st = "zombie") =>
            (WIFEXITED(proc[child.pid].status) /\ WEXITSTATUS(proc[child.pid].status) = 1)
       /\ pc \notin {"final", "done", "killed"}

\* a child whose input file could not be opened has exited with status 1,
\* its output file untouched, and the interpreter is on its way to the prompt
C17_Witness ==
  /\ child.pid # 0
  /\ cmd.inFile = "in_bad"
  /\ cmd.outFile = "out_ok"
  /\ ~child.outOpened
  /\ proc[child.pid].st = "zombie"
  /\ WEXITSTATUS(proc[child.pid].status) = 1
  /\ pc = "reap"

\* C18: removeBgPid(pid) on a registry that holds pid leaves the registry
\* with the same set of pids less pid, in one cell less and still without a
\* pid twice, whether pid was in the last cell, the only cell or any other;
\* on a registry that does not hold pid it changes neither a cell nor the
\* count.
C18_RemoveTakesOutOnePid ==
  (pre # NoPre) =>
    LET before == Registry(pre[1], pre[2])
        after  == Registry(bgPids, bgCount)
    IN IF spawnpid \in before
         THEN /\ after = before \ {spawnpid}
              /\ bgCount = pre[2] - 1
              /\ Cardinality(after) = bgCount
         ELSE /\ bgPids = pre[1]
              /\ bgCount = pre[2]

\* the pid in cell 0 of a registry of three has been removed: the pid of the
\* last cell has taken its place
C18_Witness ==
  /\ pre # NoPre
  /\ pre[2] = 3
  /\ spawnpid = pre[1][0]
  /\ bgCount = 2
  /\ bgPids[0] = pre[1][2]
  /\ bgPids[1] = pre[1][1]

\* C19: for every launch, the child took the background setup (SIGINT
\* ignored at line 278, the /dev/null defaults of lines 300 and 324) exactly
\* when the parent took the background branch of line 346 and registered
\* the pid instead of waiting for it, wherever SIGTSTP is delivered between
\* line 444 and these reads of backgroundOn.
C19_ParentAndChildAgree ==
  (branch \in {"bg", "fg"}) =>
    /\ child.asBg <=> (branch = "bg")
    /\ (child.sigint = "SIG_IGN") <=> (branch = "bg")

\* a child that has ended and whose pid is in the registry
TrackedEnded(p) == proc[p].st = "zombie" /\ p \in Registry(bgPids, bgCount)

\* C20: a "background pid p is done" line is printed only in the turn of
\* reapBackground in which waitpid returns p, so once for each child; when p
\* is in the registry that turn also takes p out of it; inside the loop a
\* registered child that has ended stays so until that turn; reapBackground
\* returns only when no registered child that has ended is left; and every
\* dispatched command other than exit leads to the prompt only through
\* reapBackground. So a registered child that has ended is reported no later
\* than the prompt that follows the next dispatched command.
C20_TrackedReportedOnce ==
  [][IF pc = "reap"
       THEN /\ pc' \in {"reap", "prompt"}
            /\ (out'[1] = "background pid is done" /\ out' # out) =>
                 (proc[out'[2]].st = "zombie" /\ proc'[out'[2]].st = "free")
            /\ \A p \in Pids :
                 TrackedEnded(p) =>
                   /\ pc' = "reap"
                   /\ IF proc'[p].st = "zombie"
                        THEN p \in Registry(bgPids', bgCount')
                        ELSE /\ out' = reportDone(p, proc[p].status)
                             /\ p \notin Registry(bgPids', bgCount')
                             /\ proc'[p].st = "free"
       ELSE /\ (out'[1] = "background pid is done") => (out' = out)
            /\ (pc' = "prompt") => (pc \in {"prompt", "start"})
            /\ (pc # "final") =>
                 /\ \A p \in Pids : TrackedEnded(p) => TrackedEnded(p)'
                 /\ (pc \in {"fork", "parent", "wait", "eintr"}) =>
                      (pc' \in {"fork", "parent", "wait", "eintr", "reap"})
                 /\ (pc = "dispatch") =>
                      /\ pc' \in {"dispatch", "reap", "fork", "final"}
                      /\ (pc' = "final") => (cmd.kind = "exit")]_vars

\* the background job of this launch, registered in an empty registry, has
\* ended, has been reported and has left the registry
C20_Witness ==
  /\ pc = "reap"
  /\ branch = "bg"
  /\ pre # NoPre
  /\ pre[2] = 0
  /\ out[1] = "background pid is done"
  /\ out[2] = spawnpid
  /\ bgCount = 0
  /\ proc[spawnpid].st = "free"

====
